---- MODULE Spec2Model ----
(***************************************************************************)
(* scripts/analyze_deps.py: the dependency scan (get_lib_deps,             *)
(* get_wheel_deps), the requirement normaliser (parse_req), the aggregator *)
(* (record_dep), the inconsistency scan, the freeze writer, the baseline   *)
(* loader and the baseline diff, as a state machine over runs of the       *)
(* script on one package tree and one shared_requirements.txt.             *)
(*                                                                         *)
(* Strings are TLA+ strings; the text functions below work on them         *)
(* character by character, as the Python and pkg_resources code does.      *)
(***************************************************************************)
EXTENDS Naturals, Integers, Sequences, FiniteSets, TLC

(***************************************************************************)
(* Text primitives                                                         *)
(***************************************************************************)

\* Python's None where a tuple is expected (parse_req's result after a caught
\* parse error): the empty tuple, which no parsed requirement equals.
None == << >>

Char(s, i) == SubSeq(s, i, i)

UpperChars == "ABCDEFGHIJKLMNOPQRSTUVWXYZ"
LowerChars == "abcdefghijklmnopqrstuvwxyz"
DigitChars == "0123456789"

\* The printable ASCII characters in code point order: 32 (space) to 95, and
\* 97 to 126.
AsciiLow == " !\"#$%&'()*+,-./0123456789:;<=>?@ABCDEFGHIJKLMNOPQRSTUVWXYZ[\\]^_"
AsciiHigh == "abcdefghijklmnopqrstuvwxyz{|}~"

CharsOf(s) == { Char(s, i) : i \in 1..Len(s) }

\* string.ascii_letters + string.digits
AlnumSet == CharsOf(UpperChars) \cup CharsOf(LowerChars) \cup CharsOf(DigitChars)

\* Word("-_.")
PunctSet == {"-", "_", "."}

\* the characters pyparsing skips between tokens, and the regex class \s
WhiteSet == {" ", "\t", "\n"}

\* ord(c): the code point, for the characters the model uses.
Ord(c) ==
    IF c = "\t" THEN 9
    ELSE IF c = "\n" THEN 10
    ELSE IF c \in CharsOf(AsciiLow)
         THEN 31 + (CHOOSE i \in 1..Len(AsciiLow) : Char(AsciiLow, i) = c)
         ELSE 96 + (CHOOSE i \in 1..Len(AsciiHigh) : Char(AsciiHigh, i) = c)

\* str.lower() on one character
LowerChar(c) ==
    IF c \in CharsOf(UpperChars)
    THEN Char(LowerChars, CHOOSE i \in 1..Len(UpperChars) : Char(UpperChars, i) = c)
    ELSE c

RECURSIVE lower(_)
\* str.lower()
lower(s) == IF s = "" THEN "" ELSE LowerChar(Char(s, 1)) \o lower(Tail(s))

\* s.startswith(p)
startswith(s, p) == Len(s) >= Len(p) /\ SubSeq(s, 1, Len(p)) = p

\* s.endswith(p)
endswith(s, p) == Len(s) >= Len(p) /\ SubSeq(s, Len(s) - Len(p) + 1, Len(s)) = p

RECURSIVE replace(_, _)
\* s.replace(old, ''): every non-overlapping occurrence of old, left to right,
\* is removed (old = '' leaves s as it is, since the replacement is empty too).
replace(s, old) ==
    IF old = "" \/ Len(s) < Len(old) THEN s
    ELSE IF startswith(s, old) THEN replace(SubSeq(s, Len(old) + 1, Len(s)), old)
    ELSE Char(s, 1) \o replace(Tail(s), old)

RECURSIVE RunEnd(_, _, _)
\* The first index j >= i with s[j] outside cs (Len(s) + 1 when there is none).
RunEnd(s, i, cs) ==
    IF i > Len(s) \/ Char(s, i) \notin cs THEN i ELSE RunEnd(s, i + 1, cs)

RECURSIVE StopAt(_, _, _)
\* The first index j >= i with s[j] in cs (Len(s) + 1 when there is none).
StopAt(s, i, cs) ==
    IF i > Len(s) \/ Char(s, i) \in cs THEN i ELSE StopAt(s, i + 1, cs)

RECURSIVE RStrip(_, _)
\* s with its trailing characters of cs removed
RStrip(s, cs) ==
    IF s # "" /\ Char(s, Len(s)) \in cs THEN RStrip(SubSeq(s, 1, Len(s) - 1), cs) ELSE s

RECURSIVE StrLess(_, _)
\* Python's s < t on strings: lexicographic by code point
StrLess(s, t) ==
    IF t = "" THEN FALSE
    ELSE IF s = "" THEN TRUE
    ELSE IF Char(s, 1) = Char(t, 1) THEN StrLess(Tail(s), Tail(t))
    ELSE Ord(Char(s, 1)) < Ord(Char(t, 1))

RECURSIVE SortedStrs(_)
\* sorted(S) for a set of strings, as a sequence
SortedStrs(S) ==
    IF S = {} THEN << >>
    ELSE LET m == CHOOSE x \in S : \A y \in S \ {x} : StrLess(x, y)
         IN  <<m>> \o SortedStrs(S \ {m})

RECURSIVE Join(_, _)
\* sep.join(seq)
Join(seq, sep) ==
    IF seq = << >> THEN ""
    ELSE IF Len(seq) = 1 THEN seq[1]
    ELSE seq[1] \o sep \o Join(Tail(seq), sep)

Range(f) == { f[i] : i \in DOMAIN f }

(***************************************************************************)
(* pkg_resources.Requirement.parse, for requirement strings of the form    *)
(* name [specifiers] or name (specifiers): the names, operators and        *)
(* version text of packaging's grammar, without extras ([..]), URLs (@),   *)
(* environment markers (;) and the === operator. After the ~= operator and *)
(* where two specifiers of one requirement are compared for equality, a    *)
(* version is read as its release segment, digits separated by dots with   *)
(* an optional leading v: epochs, pre-, post- and development releases and *)
(* local versions are outside the model there.                             *)
(***************************************************************************)

RECURSIVE safe_name(_)
\* re.sub('[^A-Za-z0-9.]+', '-', name): each run of other characters becomes
\* one '-'.
safe_name(name) ==
    IF name = "" THEN ""
    ELSE IF Char(name, 1) \in AlnumSet \cup {"."}
         THEN Char(name, 1) \o safe_name(Tail(name))
         ELSE "-" \o safe_name(SubSeq(name, RunEnd(name, 1, CharsOf(name) \ (AlnumSet \cup {"."})), Len(name)))

RECURSIVE TrimBack(_, _)
\* The largest k <= j with s[k - 1] not a punctuation character.
TrimBack(s, j) == IF j > 1 /\ Char(s, j - 1) \in PunctSet THEN TrimBack(s, j - 1) ELSE j

\* IDENTIFIER = ALPHANUM (ALPHANUM | PUNCTUATION* ALPHANUM)*: the index after
\* the identifier that starts at i (i itself when none starts there).
IdentifierEnd(s, i) ==
    IF i > Len(s) \/ Char(s, i) \notin AlnumSet THEN i
    ELSE TrimBack(s, RunEnd(s, i, AlnumSet \cup PunctSet))

\* LegacySpecifier's operators, in the order its regex tries them.
LegacyOperators == <<"==", "!=", "<=", ">=", "<", ">">>

\* The operator Specifier's regex has and LegacySpecifier's has not (next to
\* ===).
CompatibleOperator == "~="

\* The operator at index i of s, "" when none.
OperatorAt(s, i) ==
    LET rest == SubSeq(s, i, Len(s))
        hits == { k \in DOMAIN LegacyOperators : startswith(rest, LegacyOperators[k]) }
    IN  IF startswith(rest, CompatibleOperator) THEN CompatibleOperator
        ELSE IF hits = {} THEN ""
        ELSE LegacyOperators[CHOOSE k \in hits : \A m \in hits : k <= m]

RECURSIVE ReleaseEnd(_, _)
\* [0-9]+(?:\.[0-9]+)* at index i: the index after the longest match (i itself
\* when no digit is there).
ReleaseEnd(s, i) ==
    LET e == RunEnd(s, i, CharsOf(DigitChars))
    IN  IF e = i THEN i
        ELSE IF e <= Len(s) /\ Char(s, e) = "." /\ ReleaseEnd(s, e + 1) > e + 1
        THEN ReleaseEnd(s, e + 1)
        ELSE e

\* The index after an optional v at index i (the regex ignores case).
AfterV(s, i) == IF i <= Len(s) /\ Char(s, i) \in {"v", "V"} THEN i + 1 ELSE i

\* VERSION_PEP440 at index i for the operator ~=: \s*, v?, and a release of
\* at least two segments.
VERSION_COMPATIBLE(s, i) ==
    LET k     == RunEnd(s, i + Len(CompatibleOperator), WhiteSet)
        first == RunEnd(s, AfterV(s, k), CharsOf(DigitChars))
        e     == ReleaseEnd(s, AfterV(s, k))
    IN  IF first > AfterV(s, k) /\ e > first
        THEN [ok |-> TRUE, end |-> e, text |-> CompatibleOperator \o SubSeq(s, k, e - 1)]
        ELSE [ok |-> FALSE, end |-> i, text |-> ""]

\* VERSION_LEGACY at index i for one of its operators op: op, \s*, then the
\* version text up to the next comma, semicolon, whitespace or ')'.
VERSION_LEGACY(s, i, op) ==
    LET k == RunEnd(s, i + Len(op), WhiteSet)
        e == StopAt(s, k, {",", ";", ")"} \cup WhiteSet)
    IN  [ok |-> TRUE, end |-> e, text |-> op \o SubSeq(s, k, e - 1)]

\* VERSION_ONE = VERSION_PEP440 ^ VERSION_LEGACY at index i, the longer of
\* the two matches. For an operator of LegacySpecifier that is
\* VERSION_LEGACY's, which stops no earlier than VERSION_PEP440's; for ~=
\* only VERSION_PEP440 matches. text is str(Specifier): the operator
\* followed by the version.
VERSION_ONE(s, i) ==
    LET op == OperatorAt(s, i)
    IN  IF op = "" THEN [ok |-> FALSE, end |-> i, text |-> ""]
        ELSE IF op = CompatibleOperator THEN VERSION_COMPATIBLE(s, i)
        ELSE VERSION_LEGACY(s, i, op)

RECURSIVE MoreVersions(_, _, _)
\* ZeroOrMore(COMMA + VERSION_ONE) from index i, with the specifiers so far,
\* in the order of the text.
MoreVersions(s, i, specs) ==
    LET p == RunEnd(s, i, WhiteSet)
        v == VERSION_ONE(s, RunEnd(s, p + 1, WhiteSet))
    IN  IF p <= Len(s) /\ Char(s, p) = "," /\ v.ok
        THEN MoreVersions(s, v.end, Append(specs, v.text))
        ELSE [ok |-> TRUE, end |-> i, specs |-> specs]

\* VERSION_MANY at index i.
VERSION_MANY(s, i) ==
    LET v == VERSION_ONE(s, i)
    IN  IF v.ok THEN MoreVersions(s, v.end, <<v.text>>)
        ELSE [ok |-> FALSE, end |-> i, specs |-> << >>]

\* LPAREN + VERSION_MANY + RPAREN at index i, inner being VERSION_MANY's
\* result after the '('.
InParens(s, i, inner) ==
    LET close == RunEnd(s, inner.end, WhiteSet)
    IN  IF i <= Len(s) /\ Char(s, i) = "(" /\ inner.ok
           /\ close <= Len(s) /\ Char(s, close) = ")"
        THEN [ok |-> TRUE, end |-> close + 1, specs |-> inner.specs]
        ELSE [ok |-> FALSE, end |-> i, specs |-> << >>]

\* Optional(a | b) at index i: a when it matches, else b, else nothing.
OptionalEither(a, b, i) ==
    IF a.ok THEN a ELSE IF b.ok THEN b ELSE [ok |-> TRUE, end |-> i, specs |-> << >>]

\* Optional((LPAREN + VERSION_MANY + RPAREN) | VERSION_MANY) at index i.
VERSION_SPEC(s, i) ==
    OptionalEither(InParens(s, i, VERSION_MANY(s, RunEnd(s, i + 1, WhiteSet))),
                   VERSION_MANY(s, i), i)

RECURSIVE split(_, _)
\* s.split(sep), sep being one character
split(s, sep) ==
    LET e == StopAt(s, 1, {sep})
    IN  IF e > Len(s) THEN <<s>>
        ELSE <<SubSeq(s, 1, e - 1)>> \o split(SubSeq(s, e + 1, Len(s)), sep)

\* str(int(digits))
IntText(digits) ==
    LET k == RunEnd(digits, 1, {"0"})
    IN  IF k > Len(digits) THEN "0" ELSE SubSeq(digits, k, Len(digits))

RECURSIVE StripZeroSegments(_)
\* re.sub(r'(\.0)+$', '', release), on the segments of the release
StripZeroSegments(segments) ==
    IF Len(segments) > 1 /\ segments[Len(segments)] = "0"
    THEN StripZeroSegments(SubSeq(segments, 1, Len(segments) - 1))
    ELSE segments

\* canonicalize_version(version): a release (with an optional leading v)
\* has its segments read as integers and its trailing zero segments
\* dropped; text that Version does not parse is returned as it is.
canonicalize_version(version) ==
    LET release == SubSeq(version, AfterV(version, 1), Len(version))
        segments == split(release, ".")
    IN  IF release # "" /\ ReleaseEnd(release, 1) = Len(release) + 1
        THEN Join(StripZeroSegments([i \in DOMAIN segments |-> IntText(segments[i])]), ".")
        ELSE version

\* _canonical_spec of the specifier with this text: what __eq__ and __hash__
\* of a specifier go by.
canonical_spec(text) ==
    LET op == OperatorAt(text, 1)
    IN  <<op, canonicalize_version(SubSeq(text, Len(op) + 1, Len(text)))>>

\* SpecifierSet(raw)._specs, as str(Specifier) texts: the specifiers are
\* added to a set one by one in the order of the text, so of several equal
\* ones the first stays.
SpecifierSet(specs) ==
    { specs[k] : k \in { i \in DOMAIN specs :
                           \A j \in 1..(i - 1) :
                               canonical_spec(specs[j]) # canonical_spec(specs[i]) } }

\* stringStart + NAME + VERSION_SPEC + stringEnd, the name being
\* line[start .. nend - 1] and vs what VERSION_SPEC matched after it.
\* specifier is str(SpecifierSet): the specifiers sorted and joined by ','.
NamedRequirement(line, start, nend, vs) ==
    IF nend > start /\ RunEnd(line, vs.end, WhiteSet) > Len(line)
    THEN [ok |-> TRUE, name |-> SubSeq(line, start, nend - 1),
          specifier |-> Join(SortedStrs(SpecifierSet(vs.specs)), ",")]
    ELSE [ok |-> FALSE, name |-> "", specifier |-> ""]

\* The requirement whose name starts at index start.
RequirementFrom(line, start, nend) ==
    NamedRequirement(line, start, nend, VERSION_SPEC(line, RunEnd(line, nend, WhiteSet)))

\* The requirement after the leading whitespace.
RequirementAt(line, start) == RequirementFrom(line, start, IdentifierEnd(line, start))

\* packaging's Requirement(line): [ok, name, specifier], ok = FALSE when it
\* raises.
Requirement(line) == RequirementAt(line, RunEnd(line, 1, WhiteSet))

RECURSIVE splitlines(_)
\* str.splitlines(), the line break being "\n"
splitlines(s) ==
    IF s = "" THEN << >>
    ELSE LET e == StopAt(s, 1, {"\n"})
         IN  <<SubSeq(s, 1, e - 1)>> \o splitlines(SubSeq(s, e + 1, Len(s)))

\* str.strip()
strip(s) == RStrip(SubSeq(s, RunEnd(s, 1, WhiteSet), Len(s)), WhiteSet)

RECURSIVE IndexOf(_, _, _)
\* s.find(sub) from index i on, as a 1-based index; 0 when sub does not occur
IndexOf(s, sub, i) ==
    IF i + Len(sub) - 1 > Len(s) THEN 0
    ELSE IF SubSeq(s, i, i + Len(sub) - 1) = sub THEN i
    ELSE IndexOf(s, sub, i + 1)

\* jaraco.text.drop_comment: line.partition(' #')[0]
drop_comment(line) ==
    LET k == IndexOf(line, " #", 1)
    IN  IF k = 0 THEN line ELSE SubSeq(line, 1, k - 1)

\* the lines, each stripped
StrippedLines(lines) == [i \in DOMAIN lines |-> strip(lines[i])]

\* jaraco.text.yield_lines: the stripped lines that are neither blank nor
\* comments
yield_lines(text) ==
    SelectSeq(StrippedLines(splitlines(text)), LAMBDA l : l # "" /\ ~startswith(l, "#"))

RECURSIVE join_continuation(_)
\* jaraco.text.join_continuation: a line ending in a backslash loses its
\* last two characters, is stripped and has the next line appended; when no
\* line follows, it and what would come after it are suppressed.
join_continuation(lines) ==
    IF lines = << >> THEN << >>
    ELSE IF endswith(lines[1], "\\")
    THEN IF Len(lines) = 1 THEN << >>
         ELSE join_continuation(
                  <<strip(SubSeq(lines[1], 1, Len(lines[1]) - 2)) \o lines[2]>>
                  \o SubSeq(lines, 3, Len(lines)))
    ELSE <<lines[1]>> \o join_continuation(Tail(lines))

\* pkg_resources.parse_requirements(strs), before Requirement is mapped over
\* it: join_continuation(map(drop_comment, yield_lines(strs)))
parse_requirements(strs) ==
    LET lines == yield_lines(strs)
    IN  join_continuation([i \in DOMAIN lines |-> drop_comment(lines[i])])

\* req, = lines: raises unless there is exactly one requirement line (and
\* when Requirement raises on it).
OnlyRequirement(lines) ==
    IF Len(lines) = 1 THEN Requirement(lines[1])
    ELSE [ok |-> FALSE, name |-> "", specifier |-> ""]

\* pkg_resources.Requirement.parse(s): req, = parse_requirements(s)
Requirement_parse(s) == OnlyRequirement(parse_requirements(s))

\* (req_name, spec) of a parsed requirement: spec is str(req_object) with
\* every occurrence of req_name removed.
NameAndSpec(req_object, req_name) ==
    <<req_name, replace(req_object.name \o req_object.specifier, req_name)>>

\* parse_req's result for Requirement.parse's: req_name is Requirement.key,
\* safe_name(name).lower(); None after the caught parse error.
ParsedReq(req_object) ==
    IF req_object.ok THEN NameAndSpec(req_object, lower(safe_name(req_object.name)))
    ELSE None

\* parse_req(req)
parse_req(req) == ParsedReq(Requirement_parse(req))

(***************************************************************************)
(* Dictionaries are functions; a dict of dicts of lists is a function to   *)
(* functions to sequences.                                                 *)
(***************************************************************************)

\* {}
EmptyDict == << >>

\* d with d[k] = v set (key added or value overwritten)
DictSet(d, k, v) == [x \in DOMAIN d \cup {k} |-> IF x = k THEN v ELSE d[x]]

(***************************************************************************)
(* The scan: should_skip_lib, parse_setup, record_dep, and the loop bodies *)
(* of get_lib_deps and get_wheel_deps                                      *)
(***************************************************************************)

skip_pkgs == {"azure-mgmt-documentdb", "azure-sdk-for-python", "azure-sdk-tools",
              "azure-servicemanagement-legacy"}

should_skip_lib(lib_name) == lib_name \in skip_pkgs \/ endswith(lib_name, "-nspkg")

RECURSIVE Concat(_)
\* the lists of a list of lists, concatenated in order
Concat(lists) == IF lists = << >> THEN << >> ELSE lists[1] \o Concat(Tail(lists))

\* parse_setup's result for a manifest whose evaluation succeeded: requires is
\* install_requires followed by every extras_require value.
parse_setup(lib) == lib.install_requires \o Concat(lib.extras_require)

\* record_dep raises (TypeError: cannot unpack None) when parse_req returned
\* None.
record_dep_raises(req) == parse_req(req) = None

\* Lines 42-46 of record_dep, parsed being (req_name, spec): the list
\* dependencies[req_name][spec] is created when absent and lib_name appended.
Recorded(dependencies, parsed, lib_name) ==
    LET req_name == parsed[1]
        spec     == parsed[2]
        specs    == IF req_name \in DOMAIN dependencies THEN dependencies[req_name]
                    ELSE EmptyDict
        libs     == IF spec \in DOMAIN specs THEN specs[spec] ELSE << >>
    IN  DictSet(dependencies, req_name, DictSet(specs, spec, Append(libs, lib_name)))

\* record_dep(dependencies, req, lib_name) when it does not raise
record_dep(dependencies, req, lib_name) == Recorded(dependencies, parse_req(req), lib_name)

RECURSIVE RecordAll(_, _, _)
\* for req in requires: record_dep(dependencies, req, lib_name), inside the
\* try block of the scan loop: the first record_dep that raises ends the loop
\* for this package, what was recorded before stays.
RecordAll(dependencies, requires, lib_name) ==
    IF requires = << >> THEN dependencies
    ELSE IF record_dep_raises(requires[1]) THEN dependencies
    ELSE RecordAll(record_dep(dependencies, requires[1], lib_name), Tail(requires), lib_name)

RECURSIVE RemoveChars(_, _)
\* re.sub(r'[cs]', '', s)
RemoveChars(s, cs) ==
    IF s = "" THEN ""
    ELSE IF Char(s, 1) \in cs THEN RemoveChars(Tail(s), cs)
    ELSE Char(s, 1) \o RemoveChars(Tail(s), cs)

\* get_wheel_deps, lines 92-93: the text before the first ';', without
\* whitespace and parentheses
WheelReq(req) == RemoveChars(SubSeq(req, 1, StopAt(req, 1, {";"}) - 1), WhiteSet \cup {"(", ")"})

(***************************************************************************)
(* The inconsistency scan and the freeze writer                            *)
(***************************************************************************)

\* lines 202-209: the sorted requirement names whose number of specifiers
\* is not 1
InconsistentOf(dependencies) ==
    SortedStrs({ requirement \in DOMAIN dependencies :
                    Cardinality(DOMAIN dependencies[requirement]) # 1 })

\* list(dependencies[requirement].keys())[0], for a dict with one key
FirstSpec(specs) == CHOOSE spec \in DOMAIN specs : TRUE

\* A faulty freeze writer, for comparison: it leaves out the requirements
\* that have no version specifier.
FrozenFileOf_PinnedOnly(dependencies) ==
    LET names  == SortedStrs(DOMAIN dependencies)
        pinned == SelectSeq(names, LAMBDA name : FirstSpec(dependencies[name]) # "")
    IN  [i \in DOMAIN pinned |-> pinned[i] \o FirstSpec(dependencies[pinned[i]]) \o "\n"]

\* lines 236-241: one line requirement + spec + '\n' per requirement name,
\* in sorted order
FrozenFileOf(dependencies) ==
    LET names == SortedStrs(DOMAIN dependencies)
    IN  [i \in DOMAIN names |-> names[i] \o FirstSpec(dependencies[names[i]]) \o "\n"]

(***************************************************************************)
(* The baseline loader (lines 245-259)                                     *)
(***************************************************************************)

\* line.split(' ', 2)
split2(line) ==
    LET i1 == IndexOf(line, " ", 1)
        i2 == IF i1 = 0 THEN 0 ELSE IndexOf(line, " ", i1 + 1)
    IN  IF i1 = 0 THEN <<line>>
        ELSE IF i2 = 0 THEN <<SubSeq(line, 1, i1 - 1), SubSeq(line, i1 + 1, Len(line))>>
        ELSE <<SubSeq(line, 1, i1 - 1), SubSeq(line, i1 + 1, i2 - 1),
               SubSeq(line, i2 + 1, Len(line))>>

\* Lines 252-253 raise: the line does not split into three fields, or
\* record_dep raises on the third.
OverrideRaises(fields) == Len(fields) # 3 \/ record_dep_raises(fields[3])

\* Whether the loop body raises on this line: an '#override' line as above,
\* or a non-comment line that does not parse.
LoadLineRaises(line) ==
    IF startswith(line, "#override") THEN OverrideRaises(split2(line))
    ELSE ~startswith(line, "#") /\ parse_req(line) = None

\* Lines 252-254 on the loader's state [frozen, overrides, override_count]
LoadOverride(st, fields) ==
    [st EXCEPT !.overrides = record_dep(@, fields[3], fields[2]),
               !.override_count = @ + 1]

\* Lines 256-257, parsed being (req_name, spec)
LoadFrozen(st, parsed) == [st EXCEPT !.frozen = DictSet(@, parsed[1], <<parsed[2]>>)]

\* The loop body on a line that does not raise.
LoadLine(st, line) ==
    IF startswith(line, "#override") THEN LoadOverride(st, split2(line))
    ELSE IF ~startswith(line, "#") THEN LoadFrozen(st, parse_req(line))
    ELSE st

RECURSIVE LoadLines(_, _)
\* for line in frozen_file, inside the try block: the first line that raises
\* ends the loop, what was loaded before stays.
LoadLines(st, lines) ==
    IF lines = << >> THEN st
    ELSE IF LoadLineRaises(lines[1]) THEN st
    ELSE LoadLines(LoadLine(st, lines[1]), Tail(lines))

\* A faulty variant of the loader, for comparison: a line that raises
\* discards what was loaded before it.
LoadBaselineOf_AllOrNothing(file) ==
    LET st0 == [frozen |-> EmptyDict, overrides |-> EmptyDict, override_count |-> 0]
    IN  IF file.exists /\ \A i \in DOMAIN file.lines : ~LoadLineRaises(file.lines[i])
        THEN LoadLines(st0, file.lines)
        ELSE st0

\* The loader's result for the baseline file (io.open raises when the file
\* does not exist).
LoadBaselineOf(file) ==
    LET st0 == [frozen |-> EmptyDict, overrides |-> EmptyDict, override_count |-> 0]
    IN  IF file.exists THEN LoadLines(st0, file.lines) ELSE st0

(***************************************************************************)
(* The baseline diff (lines 261-304)                                       *)
(***************************************************************************)

\* line 264
flat_deps(dependencies) ==
    [req \in DOMAIN dependencies |-> SortedStrs(DOMAIN dependencies[req])]

\* Faulty variants of dict_compare, for comparison: added and removed
\* exchanged; every common key reported as modified.
dict_compare_Swapped(d1, d2) ==
    LET intersect_keys == DOMAIN d1 \cap DOMAIN d2
    IN  [added    |-> DOMAIN d2 \ DOMAIN d1,
         removed  |-> DOMAIN d1 \ DOMAIN d2,
         modified |-> [o \in { k \in intersect_keys : d1[k] # d2[k] } |-> <<d1[o], d2[o]>>]]

dict_compare_AllCommon(d1, d2) ==
    LET intersect_keys == DOMAIN d1 \cap DOMAIN d2
    IN  [added    |-> DOMAIN d1 \ DOMAIN d2,
         removed  |-> DOMAIN d2 \ DOMAIN d1,
         modified |-> [o \in intersect_keys |-> <<d1[o], d2[o]>>]]

\* dict_compare(d1, d2)
dict_compare(d1, d2) ==
    LET intersect_keys == DOMAIN d1 \cap DOMAIN d2
    IN  [added    |-> DOMAIN d1 \ DOMAIN d2,
         removed  |-> DOMAIN d2 \ DOMAIN d1,
         modified |-> [o \in { k \in intersect_keys : d1[k] # d2[k] } |-> <<d1[o], d2[o]>>]]

\* line 289
unmatched_specs(changed) == Range(changed[2]) \ Range(changed[1])

\* A faulty variant of lines 290-296, for comparison: an override for the
\* specifier excuses every library declaring it.
non_overridden_libs_AnyOverride(dependencies, overrides, changed_req, spec) ==
    LET override_specs == IF changed_req \in DOMAIN overrides THEN overrides[changed_req]
                          ELSE EmptyDict
    IN  IF spec \in DOMAIN override_specs THEN {}
        ELSE Range(dependencies[changed_req][spec])

\* lines 290-296: the libraries declaring changed_req with spec that no
\* override excuses
non_overridden_libs(dependencies, overrides, changed_req, spec) ==
    LET override_specs == IF changed_req \in DOMAIN overrides THEN overrides[changed_req]
                          ELSE EmptyDict
    IN  IF spec \in DOMAIN override_specs
        THEN Range(dependencies[changed_req][spec]) \ Range(override_specs[spec])
        ELSE Range(dependencies[changed_req][spec])

\* The (changed_req, spec) pairs for which line 298 holds.
ViolatingPairs(dependencies, overrides, changed_reqs) ==
    { pr \in UNION { { <<req, spec>> : spec \in unmatched_specs(changed_reqs[req]) } :
                       req \in DOMAIN changed_reqs } :
        non_overridden_libs(dependencies, overrides, pr[1], pr[2]) # {} }

(***************************************************************************)
(* The state: the environment of the script (its package tree, the wheel   *)
(* directory flag, shared_requirements.txt), and the variables of          *)
(* __main__ during a run.                                                  *)
(***************************************************************************)

VARIABLES
    wheeldir,       \* args.wheeldir given: scan wheels rather than setup.py files
    tree,           \* the packages found by locate_libs / locate_wheels, sorted
    baseline,       \* shared_requirements.txt: [exists, lines]
    freeze,         \* args.freeze of the current run
    pc,             \* where the current run is
    next_lib,       \* the index in tree of the next package to scan
    packages,       \* the keys of the packages dict
    dependencies,   \* the Dependency Map
    inconsistent,   \* the inconsistent list
    exitcode,       \* exitcode
    frozen,         \* the Frozen Baseline as loaded
    overrides,      \* the Override Map as loaded
    override_count, \* override_count
    missing_reqs,   \* missing_reqs (keys)
    new_reqs,       \* new_reqs (keys)
    changed_reqs,   \* changed_reqs
    non_overridden_reqs_count,
    reported,       \* lines 298-304: (changed_req, spec) -> the libraries reported
    baseline_at_start, \* shared_requirements.txt when the current run started
    opened_for_write,  \* the current run opened shared_requirements.txt with 'w'
    diff_ran,          \* the current run called dict_compare (line 265)
    frozen_here,       \* shared_requirements.txt was written by a --freeze run on this tree
    manifest_raises,   \* the packages whose setup.py raises while it is executed (line 125)
    cwd,               \* the working directory of the process
    store,             \* the service: the setting stored for the key, None or <<setting>>
    version,           \* the service: the number of ETags it has issued
    call,              \* the client: the method called and its arguments
    call_pc,           \* the client: "idle", "got" (between the two requests of update), "done"
    prepared,          \* the client: the outcome of prep_update_configuration_setting
    request_headers,   \* the client: custom_headers, the headers of the write request
    current_configuration_setting,  \* the client: what get_configuration_setting returned
    outcome,           \* the client: the outcome of the call
    held_before_write  \* the service: what it stored when the write request arrived

\* The variables of the configuration client and of the service.
client == <<store, version, call, call_pc, prepared, request_headers,
            current_configuration_setting, outcome, held_before_write>>

vars == <<wheeldir, tree, baseline, freeze, pc, next_lib, packages, dependencies,
          inconsistent, exitcode, frozen, overrides, override_count, missing_reqs,
          new_reqs, changed_reqs, non_overridden_reqs_count, reported,
          baseline_at_start, opened_for_write, diff_ran, frozen_here,
          manifest_raises, cwd, client>>

env == <<wheeldir, tree, manifest_raises>>

\* A package of the tree. In source mode ok says that parse_setup returns
\* (the manifest is read and evaluated without an exception) and its setup()
\* keywords are install_requires and extras_require (the values, in dict
\* order); in wheel mode ok says that the wheel and its METADATA are read and
\* requires_dist holds the Requires-Dist headers.
Lib(name, ok, install_requires, extras_require, requires_dist) ==
    [name |-> name, ok |-> ok, install_requires |-> install_requires,
     extras_require |-> extras_require, requires_dist |-> requires_dist]

\* The requirement strings the setup.py files of the model declare.
SetupReqs == {"six>=1", "six>=1,<2", "Six>=1", "msrest", "six=1"}

\* The requirement strings an extras_require entry of the model declares.
ExtraReqs == {"six>=1"}

\* The setup() keywords of the model: at most two requirement strings, in
\* install_requires (two different strings) or in extras of one string each.
SetupKeywords ==
    { <<i, e>> : i \in {<< >>}, e \in {<< >>} }
    \cup { <<(<<r>>), << >>>> : r \in SetupReqs }
    \cup { <<(<< >>), <<(<<x>>)>>>> : x \in ExtraReqs }
    \cup { <<(<<rq[1], rq[2]>>), << >>>> :
               rq \in { x \in SetupReqs \X SetupReqs : x[1] # x[2] } }
    \cup { <<(<<r>>), <<(<<x>>)>>>> : r \in SetupReqs, x \in ExtraReqs }
    \cup { <<(<< >>), <<(<<x>>), (<<y>>)>>>> : x \in ExtraReqs, y \in ExtraReqs }

\* The Requires-Dist header lists of the model.
RequiresDists ==
    { << >>, <<"six (>=1)">>, <<"six (>=1,<2)">>, <<"msrest ; extra == 'x'">>,
      <<"six (>=1)", "msrest">>, <<"six=1", "msrest">>,
      <<"msrest (~=0.6)", "six (>=1,>=1.0)">> }

SourceLibs(name) ==
    { Lib(name, TRUE, k[1], k[2], << >>) : k \in SetupKeywords }
    \cup { Lib(name, FALSE, << >>, << >>, << >>) }

WheelLibs(name) ==
    { Lib(name, TRUE, << >>, << >>, d) : d \in RequiresDists }
    \cup { Lib(name, FALSE, << >>, << >>, << >>) }

\* The package trees of the model: two packages, in path order; the second
\* one may be a namespace package, which should_skip_lib leaves out.
SourceTrees ==
    { <<a, b>> : a \in SourceLibs("azure-a"), b \in SourceLibs("azure-b") }
    \cup { <<a, Lib("azure-nspkg", TRUE, <<"six>=1,<2">>, << >>, << >>)>> :
               a \in SourceLibs("azure-a") }
WheelTrees ==
    { <<a, b>> : a \in WheelLibs("azure-a"), b \in WheelLibs("azure-b") }
    \cup { <<a, Lib("azure-nspkg", TRUE, << >>, << >>, <<"six (>=1,<2)">>)>> :
               a \in WheelLibs("azure-a") }

File(lines) == [exists |-> TRUE, lines |-> lines]
NoFile == [exists |-> FALSE, lines |-> << >>]

\* The shared_requirements.txt files a behaviour starts with.
Baselines ==
    { NoFile,
      File(<< >>),
      File(<<"six>=1\n">>),
      File(<<"msrest\n", "six>=1\n">>),
      File(<<"# frozen\n", "#override azure-a six>=1,<2\n", "six>=1\n">>),
      File(<<"#override azure-b Six>=1\n", "six<2,>=1\n">>),
      File(<<"six>=1\n", "\n", "msrest\n">>),
      File(<<"six>=1\n", "#override azure-a\n", "msrest\n">>) }

(***************************************************************************)
(* azure_appconfiguration_client.py: the header preparation of the         *)
(* configuration client. An optional argument is None when it is not       *)
(* given (or given as None) and the one-element tuple <<v>> when it is v.  *)
(***************************************************************************)

Some(v) == <<v>>

\* Python's truth value of an optional string: neither None nor ''.
Truthy(x) == x # None /\ x[1] # ""

\* requests.structures.CaseInsensitiveDict. The dict is the list of its
\* entries <<key.lower(), key, value>> in insertion order; __setitem__ is
\* self._store[key.lower()] = (key, value).
setitem(d, key, value) ==
    IF \E i \in DOMAIN d : d[i][1] = lower(key)
    THEN [i \in DOMAIN d |-> IF d[i][1] = lower(key) THEN <<lower(key), key, value>> ELSE d[i]]
    ELSE Append(d, <<lower(key), key, value>>)

\* key in d
contains(d, key) == \E i \in DOMAIN d : d[i][1] = lower(key)

\* d[key], for a key in d
getitem(d, key) == d[CHOOSE i \in DOMAIN d : d[i][1] = lower(key)][3]

RECURSIVE update(_, _)
\* d.update(items), items being the (key, value) pairs of a dict in order
update(d, items) ==
    IF items = << >> THEN d
    ELSE update(setitem(d, items[1][1], items[1][2]), Tail(items))

\* CaseInsensitiveDict(data), data being None or a dict
CaseInsensitiveDict(data) == IF data = None THEN << >> ELSE update(<< >>, data[1])

\* A faulty variant of quote_etag, for comparison: the star is quoted too.
quote_etag_QuotesStar(etag) ==
    IF etag # None THEN Some("\"" \o etag[1] \o "\"") ELSE etag

\* quote_etag(etag)
quote_etag(etag) ==
    IF etag # Some("*") /\ etag # None THEN Some("\"" \o etag[1] \o "\"") ELSE etag

\* The outcome of a call: the exception raised, if any, and the value
\* returned.
Raised(exception) == [raised |-> exception, value |-> << >>]
Returned(value) == [raised |-> "", value |-> value]

\* prep_update_configuration_setting(key, etag, headers=headers)
prep_update_configuration_setting(key, etag, headers) ==
    IF ~Truthy(key) THEN Raised("ValueError")
    ELSE LET custom_headers == CaseInsensitiveDict(headers)
         IN  IF Truthy(etag)
             THEN Returned(setitem(custom_headers, "if-match", quote_etag(etag)[1]))
             ELSE IF ~contains(custom_headers, "if-match")
             THEN Returned(setitem(custom_headers, "if-match", "*"))
             ELSE Returned(custom_headers)

\* No method of the client is being called.
NoArguments == [op |-> "none"]
NoCall ==
    /\ call = NoArguments
    /\ call_pc = "idle"
    /\ prepared = Returned(<< >>)
    /\ request_headers = << >>
    /\ current_configuration_setting = None
    /\ outcome = Returned(<< >>)
    /\ held_before_write = None

\* The directory the script is started in, and os.path.dirname(setup_filename)
\* of a package, all different.
StartDir == "."
DirOf(lib) == "sdk/" \o lib.name

\* The packages of a source tree whose parse_setup raises. The exception
\* comes from the exec of line 125 for those in manifest_raises, and for the
\* others from reading or compiling the file (lines 105-119) or from the
\* lookups after the exec (lines 127-129).
BrokenManifests == { tree[i].name : i \in { k \in DOMAIN tree : ~wheeldir /\ ~tree[k].ok } }

\* The variables of __main__ before the scan.
FreshRun ==
    /\ pc = "scan"
    /\ next_lib = 1
    /\ packages = {}
    /\ dependencies = EmptyDict
    /\ inconsistent = << >>
    /\ exitcode = 0
    /\ frozen = EmptyDict
    /\ overrides = EmptyDict
    /\ override_count = 0
    /\ missing_reqs = {}
    /\ new_reqs = {}
    /\ changed_reqs = EmptyDict
    /\ non_overridden_reqs_count = 0
    /\ reported = EmptyDict
    /\ opened_for_write = FALSE
    /\ diff_ran = FALSE

Init ==
    /\ wheeldir \in BOOLEAN
    /\ tree \in (IF wheeldir THEN WheelTrees ELSE SourceTrees)
    /\ baseline \in Baselines
    /\ freeze \in BOOLEAN
    /\ FreshRun
    /\ baseline_at_start = baseline
    /\ frozen_here = FALSE
    /\ manifest_raises \in SUBSET BrokenManifests
    /\ cwd = StartDir
    /\ NoCall
    /\ store = None
    /\ version = 0

(***************************************************************************)
(* The steps of a run                                                      *)
(***************************************************************************)

analysis == <<frozen, overrides, override_count, missing_reqs, new_reqs, changed_reqs,
              non_overridden_reqs_count, reported, diff_ran>>

\* The body of get_lib_deps's loop (lines 53-68) on [packages, dependencies].
\* A skipped package and a parse_setup that raises leave both as they are; a
\* record_dep that raises ends the iteration after the packages entry and the
\* earlier requirements were recorded.
LibDeps(pd, lib) ==
    IF should_skip_lib(lib.name) \/ ~lib.ok THEN pd
    ELSE [packages     |-> pd.packages \cup {lib.name},
          dependencies |-> RecordAll(pd.dependencies, parse_setup(lib), lib.name)]

\* The requirement strings get_wheel_deps passes to record_dep (lines 90-93).
WheelRequires(whl) == [i \in DOMAIN whl.requires_dist |-> WheelReq(whl.requires_dist[i])]

\* The body of get_wheel_deps's loop (lines 78-96) on [packages,
\* dependencies]. pkg_info.get_all('Requires-Dist') is None when the METADATA
\* has no such header, and iterating None raises after the packages entry was
\* set.
WheelDeps(pd, whl) ==
    IF ~whl.ok \/ should_skip_lib(whl.name) THEN pd
    ELSE [packages     |-> pd.packages \cup {whl.name},
          dependencies |-> RecordAll(pd.dependencies, WheelRequires(whl), whl.name)]

\* The working directory after the loop body of get_lib_deps on lib, entered
\* in directory dir. parse_setup (lines 122-126) saves the directory, changes
\* to the directory of setup.py, executes the manifest and changes back; an
\* exception of the exec leaves before the second chdir.
CwdAfter(dir, lib) ==
    IF ~should_skip_lib(lib.name) /\ lib.name \in manifest_raises THEN DirOf(lib) ELSE dir

\* get_lib_deps, one iteration of the loop over locate_libs.
GetLibDeps ==
    /\ pc = "scan" /\ ~wheeldir /\ next_lib <= Len(tree)
    /\ LET pd == LibDeps([packages |-> packages, dependencies |-> dependencies],
                         tree[next_lib])
       IN  packages' = pd.packages /\ dependencies' = pd.dependencies
    /\ cwd' = CwdAfter(cwd, tree[next_lib])
    /\ next_lib' = next_lib + 1
    /\ UNCHANGED <<env, client, baseline, freeze, pc, inconsistent, exitcode, analysis,
                   baseline_at_start, opened_for_write, frozen_here>>

\* get_wheel_deps, one iteration of the loop over locate_wheels.
GetWheelDeps ==
    /\ pc = "scan" /\ wheeldir /\ next_lib <= Len(tree)
    /\ LET pd == WheelDeps([packages |-> packages, dependencies |-> dependencies],
                           tree[next_lib])
       IN  packages' = pd.packages /\ dependencies' = pd.dependencies
    /\ next_lib' = next_lib + 1
    /\ UNCHANGED <<env, client, cwd, baseline, freeze, pc, inconsistent, exitcode, analysis,
                   baseline_at_start, opened_for_write, frozen_here>>

\* Lines 202-228: the inconsistency scan and the exit code it sets.
CheckConsistency ==
    /\ pc = "scan" /\ next_lib > Len(tree)
    /\ inconsistent' = InconsistentOf(dependencies)
    /\ exitcode' = IF InconsistentOf(dependencies) # << >> THEN 1 ELSE 0
    /\ pc' = "analyzed"
    /\ UNCHANGED <<env, client, cwd, baseline, freeze, next_lib, packages, dependencies, analysis,
                   baseline_at_start, opened_for_write, frozen_here>>

\* Lines 231-234: --freeze with inconsistent requirements: sys.exit(exitcode).
FreezeRefused ==
    /\ pc = "analyzed" /\ freeze /\ exitcode # 0
    /\ pc' = "exit"
    /\ UNCHANGED <<env, client, cwd, baseline, freeze, next_lib, packages, dependencies,
                   inconsistent, exitcode, analysis, baseline_at_start,
                   opened_for_write, frozen_here>>

\* A faulty variant of the write of line 235, for comparison: the file is
\* opened for appending.
Rewritten_Appended(file, lines) == File(file.lines \o lines)

\* Line 235, io.open(frozen_filename, 'w'), and the writes of line 240: the
\* file is truncated or created and holds the lines written.
Rewritten(file, lines) == File(lines)

\* Lines 235-243: --freeze with consistent requirements: the file is opened
\* with 'w' and rewritten, sys.exit(0).
Freeze ==
    /\ pc = "analyzed" /\ freeze /\ exitcode = 0
    /\ baseline' = Rewritten(baseline, FrozenFileOf(dependencies))
    /\ opened_for_write' = TRUE
    /\ frozen_here' = TRUE
    /\ pc' = "exit"
    /\ UNCHANGED <<env, client, cwd, freeze, next_lib, packages, dependencies, inconsistent,
                   exitcode, analysis, baseline_at_start>>

\* Lines 245-259: the baseline is loaded.
LoadBaseline ==
    /\ pc = "analyzed" /\ ~freeze
    /\ LET st == LoadBaselineOf(baseline)
       IN  /\ frozen' = st.frozen
           /\ overrides' = st.overrides
           /\ override_count' = st.override_count
    /\ pc' = "loaded"
    /\ UNCHANGED <<env, client, cwd, baseline, freeze, next_lib, packages, dependencies,
                   inconsistent, exitcode, missing_reqs, new_reqs, changed_reqs,
                   non_overridden_reqs_count, reported, baseline_at_start,
                   opened_for_write, diff_ran, frozen_here>>

\* Lines 261-304 and 337 with a baseline loaded (if frozen:): the diff, the
\* overrides, sys.exit(exitcode).
Validate ==
    /\ pc = "loaded" /\ frozen # EmptyDict
    /\ LET cmp   == dict_compare(frozen, flat_deps(dependencies))
           pairs == ViolatingPairs(dependencies, overrides, cmp.modified)
       IN  /\ missing_reqs' = cmp.added
           /\ new_reqs' = cmp.removed
           /\ changed_reqs' = cmp.modified
           /\ non_overridden_reqs_count' = Cardinality(pairs)
           /\ reported' = [pr \in pairs |->
                              non_overridden_libs(dependencies, overrides, pr[1], pr[2])]
           /\ exitcode' = IF cmp.removed # {} \/ pairs # {} THEN 1 ELSE exitcode
    /\ diff_ran' = TRUE
    /\ pc' = "exit"
    /\ UNCHANGED <<env, client, cwd, baseline, freeze, next_lib, packages, dependencies,
                   inconsistent, frozen, overrides, override_count, baseline_at_start,
                   opened_for_write, frozen_here>>

\* Lines 261-263 and 337 with nothing loaded: no diff, sys.exit(exitcode).
ValidateNothingFrozen ==
    /\ pc = "loaded" /\ frozen = EmptyDict
    /\ pc' = "exit"
    /\ UNCHANGED <<env, client, cwd, baseline, freeze, next_lib, packages, dependencies,
                   inconsistent, exitcode, analysis, baseline_at_start,
                   opened_for_write, frozen_here>>

\* The script is run again on the same tree, with or without --freeze.
NextRun ==
    /\ pc = "exit"
    /\ freeze' \in BOOLEAN
    /\ baseline_at_start' = baseline
    /\ pc' = "scan"
    /\ next_lib' = 1
    /\ packages' = {}
    /\ dependencies' = EmptyDict
    /\ inconsistent' = << >>
    /\ exitcode' = 0
    /\ frozen' = EmptyDict
    /\ overrides' = EmptyDict
    /\ override_count' = 0
    /\ missing_reqs' = {}
    /\ new_reqs' = {}
    /\ changed_reqs' = EmptyDict
    /\ non_overridden_reqs_count' = 0
    /\ reported' = EmptyDict
    /\ opened_for_write' = FALSE
    /\ diff_ran' = FALSE
    /\ cwd' = StartDir
    /\ UNCHANGED <<env, client, baseline, frozen_here>>

Next ==
    \/ GetLibDeps
    \/ GetWheelDeps
    \/ CheckConsistency
    \/ FreezeRefused
    \/ Freeze
    \/ LoadBaseline
    \/ Validate
    \/ ValidateNothingFrozen
    \/ NextRun

Spec == Init /\ [][Next]_vars

(***************************************************************************)
(* azure_appconfiguration_client.py: add_configuration_setting and         *)
(* update_configuration_setting against the service. The service holds     *)
(* one key; it answers a request at once, and another client may write or  *)
(* delete the setting between two requests. The generated operations       *)
(* (self._impl) and the service are not part of the file: they follow the  *)
(* HTTP rules for conditional requests (If-Match, If-None-Match, 412       *)
(* Precondition Failed, 404 Not Found) and the error_map the client        *)
(* passes.                                                                 *)
(***************************************************************************)

\* The number of ETags the service issues in a behaviour.
MaxVersion == 3

EtagNames == <<"e1", "e2", "e3", "e4", "e5">>
Etag(n) == EtagNames[n]

\* A ConfigurationSetting of the key.
ConfigurationSetting(value, content_type, tags, etag) ==
    [value |-> value, content_type |-> content_type, tags |-> tags, etag |-> etag]

\* The If-Match and If-None-Match preconditions of a write, on what the
\* service stores.
IfMatchHolds(st, headers) ==
    \/ ~contains(headers, "if-match")
    \/ /\ st # None
       /\ \/ getitem(headers, "if-match") = "*"
          \/ getitem(headers, "if-match") = "\"" \o st[1].etag \o "\""

IfNoneMatchHolds(st, headers) ==
    \/ ~contains(headers, "if-none-match")
    \/ st = None
    \/ /\ getitem(headers, "if-none-match") # "*"
       /\ getitem(headers, "if-none-match") # "\"" \o st[1].etag \o "\""

\* self._impl.create_or_update_configuration_setting(configuration_setting,
\* key, label, headers, error_map) on a service storing st after ver ETags:
\* the stored setting and the ETag count afterwards and the outcome of the
\* call.
create_or_update_configuration_setting(st, ver, configuration_setting, headers, error_map) ==
    IF IfMatchHolds(st, headers) /\ IfNoneMatchHolds(st, headers)
    THEN LET written == [configuration_setting EXCEPT !.etag = Etag(ver + 1)]
         IN  [store |-> Some(written), version |-> ver + 1, outcome |-> Returned(written)]
    ELSE [store |-> st, version |-> ver, outcome |-> Raised(error_map[412])]

\* get_configuration_setting(key, label) (lines 195-202) on a service
\* storing st.
get_configuration_setting(st) ==
    IF st = None THEN Raised("ResourceNotFoundError") ELSE Returned(st[1])

\* A faulty variant of lines 230-231, for comparison: an if-none-match header
\* of the caller is kept.
add_headers_KeepCallers(headers) ==
    IF contains(CaseInsensitiveDict(headers), "if-none-match")
    THEN CaseInsensitiveDict(headers)
    ELSE setitem(CaseInsensitiveDict(headers), "if-none-match", "*")

\* Lines 230-231 of add_configuration_setting.
add_headers(headers) == setitem(CaseInsensitiveDict(headers), "if-none-match", "*")

\* Lines 281-286 of update_configuration_setting.
updated_setting(current, value, content_type, tags) ==
    [current EXCEPT !.value        = IF value # None THEN value[1] ELSE @,
                    !.content_type = IF content_type # None THEN content_type[1] ELSE @,
                    !.tags         = IF tags # None THEN tags[1] ELSE @]

\* The arguments of the calls of the model.
Keys == {None, Some(""), Some("k")}
EtagArguments == {None, Some(""), Some("*"), Some("e1"), Some("e2")}
UpdateHeaders ==
    { None, Some(<< >>), Some(<< <<"Accept", "json">> >>),
      Some(<< <<"If-Match", "\"e1\"">> >>),
      Some(<< <<"IF-MATCH", "*">>, <<"Accept", "json">> >>) }
AddHeaders ==
    { None, Some(<< <<"If-None-Match", "\"e1\"">> >>),
      Some(<< <<"Accept", "json">>, <<"IF-NONE-MATCH", "\"e5\"">> >>),
      Some(<< <<"If-Match", "\"e1\"">> >>) }
UpdateArguments ==
    [op : {"update"}, key : Keys, value : {None, Some("v1")},
     content_type : {None, Some("c1")}, tags : {None, Some([env |-> "prod"])},
     etag : EtagArguments, headers : UpdateHeaders]
AddArguments ==
    [op : {"add"},
     configuration_setting : {ConfigurationSetting("v1", "c1", [env |-> "prod"], "")},
     headers : AddHeaders]

\* What another client writes.
OtherSettings ==
    { ConfigurationSetting("v0", "c0", [env |-> "dev"], ""),
      ConfigurationSetting("v2", "c2", [env |-> "test"], "") }

script == <<env, cwd, baseline, freeze, pc, next_lib, packages, dependencies,
            inconsistent, exitcode, analysis, baseline_at_start, opened_for_write,
            frozen_here>>

\* update_configuration_setting, lines 276-280: the headers are prepared and
\* the setting is fetched.
UpdateGet ==
    /\ call_pc = "idle"
    /\ \E arguments \in UpdateArguments :
          LET prep == prep_update_configuration_setting(arguments.key, arguments.etag,
                                                        arguments.headers)
              got  == get_configuration_setting(store)
          IN  /\ call' = arguments
              /\ prepared' = prep
              /\ IF prep.raised # "" \/ got.raised # ""
                 THEN /\ outcome' = IF prep.raised # "" THEN prep ELSE got
                      /\ call_pc' = "done"
                      /\ UNCHANGED <<request_headers, current_configuration_setting>>
                 ELSE /\ request_headers' = prep.value
                      /\ current_configuration_setting' = Some(got.value)
                      /\ call_pc' = "got"
                      /\ UNCHANGED outcome
    /\ UNCHANGED <<script, store, version, held_before_write>>

\* update_configuration_setting, lines 281-293: the attributes given are set
\* on the fetched setting and the setting is written back.
UpdatePut ==
    /\ call_pc = "got" /\ version < MaxVersion
    /\ LET sent == updated_setting(current_configuration_setting[1], call.value,
                                   call.content_type, call.tags)
           done == create_or_update_configuration_setting(store, version, sent,
                       request_headers,
                       (404 :> "ResourceNotFoundError" @@ 412 :> "ResourceModifiedError"))
       IN  /\ store' = done.store
           /\ version' = done.version
           /\ outcome' = done.outcome
    /\ held_before_write' = store
    /\ call_pc' = "done"
    /\ UNCHANGED <<script, call, prepared, request_headers, current_configuration_setting>>

\* add_configuration_setting, lines 230-238.
AddSetting ==
    /\ call_pc = "idle" /\ version < MaxVersion
    /\ \E arguments \in AddArguments :
          LET done == create_or_update_configuration_setting(store, version,
                          arguments.configuration_setting, add_headers(arguments.headers),
                          (412 :> "ResourceExistsError"))
          IN  /\ call' = arguments
              /\ request_headers' = add_headers(arguments.headers)
              /\ store' = done.store
              /\ version' = done.version
              /\ outcome' = done.outcome
    /\ held_before_write' = store
    /\ call_pc' = "done"
    /\ UNCHANGED <<script, prepared, current_configuration_setting>>

\* The call has returned or raised; the client is ready for the next call.
Return ==
    /\ call_pc = "done"
    /\ call' = NoArguments
    /\ call_pc' = "idle"
    /\ prepared' = Returned(<< >>)
    /\ request_headers' = << >>
    /\ current_configuration_setting' = None
    /\ outcome' = Returned(<< >>)
    /\ held_before_write' = None
    /\ UNCHANGED <<script, store, version>>

\* Another client writes the setting, without a precondition.
OtherClientSets ==
    /\ version < MaxVersion
    /\ \E setting \in OtherSettings :
          store' = Some([setting EXCEPT !.etag = Etag(version + 1)])
    /\ version' = version + 1
    /\ UNCHANGED <<script, call, call_pc, prepared, request_headers,
                   current_configuration_setting, outcome, held_before_write>>

\* Another client deletes the setting.
OtherClientDeletes ==
    /\ store # None
    /\ store' = None
    /\ UNCHANGED <<script, version, call, call_pc, prepared, request_headers,
                   current_configuration_setting, outcome, held_before_write>>

\* No run of the script: the client specification leaves its variables alone.
ScriptAtRest ==
    /\ wheeldir = FALSE
    /\ tree = << >>
    /\ baseline = NoFile
    /\ freeze = FALSE
    /\ FreshRun
    /\ baseline_at_start = NoFile
    /\ frozen_here = FALSE
    /\ manifest_raises = {}
    /\ cwd = StartDir

ClientInit ==
    /\ ScriptAtRest
    /\ NoCall
    /\ store = None
    /\ version = 0

ClientNext ==
    \/ UpdateGet
    \/ UpdatePut
    \/ AddSetting
    \/ Return
    \/ OtherClientSets
    \/ OtherClientDeletes

ClientSpec == ClientInit /\ [][ClientNext]_vars

(***************************************************************************)
(* What the tree declares, read off the tree itself                        *)
(***************************************************************************)

\* The requirement strings of a package that the scan hands to record_dep.
RequiresOf(lib) == IF wheeldir THEN WheelRequires(lib) ELSE parse_setup(lib)

\* A package whose manifest (source mode) or metadata (wheel mode) fails to
\* be read or evaluated: parse_setup raises, the wheel or its METADATA cannot
\* be read, or the METADATA has no Requires-Dist header to iterate.
FailsToRead(lib) == ~lib.ok \/ (wheeldir /\ lib.requires_dist = << >>)

\* The packages of the tree that the scan processes.
ScannedLibs == { tree[i] : i \in { k \in DOMAIN tree : tree[k].ok /\ ~should_skip_lib(tree[k].name) } }

\* The requirements a package declares, as packaging reads them: the
\* (name, specifier) pairs of its requirement strings that parse, the name
\* being the requirement's key and the specifier its str(SpecifierSet).
DeclaredBy(lib) ==
    { <<lower(safe_name(req_object.name)), req_object.specifier>> :
        req_object \in { x \in { Requirement_parse(r) : r \in Range(RequiresOf(lib)) } : x.ok } }

\* The (name, specifier, package) triples the scanned packages declare.
DeclaredTriples ==
    UNION { { <<d[1], d[2], lib.name>> : d \in DeclaredBy(lib) } : lib \in ScannedLibs }

\* The distinct specifiers the scanned packages declare for a requirement
\* name.
SpecsDeclared(name) == { t[2] : t \in { u \in DeclaredTriples : u[1] = name } }

\* The scan of the current run is over.
Scanned == pc \in {"analyzed", "loaded", "exit"}

(***************************************************************************)
(* C1  After aggregation a requirement name is in the inconsistent list    *)
(* if and only if the packages scanned declare more than one distinct      *)
(* specifier for it, whichever package is discovered first; the Dependency *)
(* Map has the names declared, and the specifier buckets of a name are the *)
(* distinct specifiers declared for it, so packages declaring the          *)
(* identical requirement string share one bucket.                          *)
(***************************************************************************)
C1_InconsistentIffSeveralSpecs ==
    Scanned =>
        /\ Range(inconsistent) =
              { t[1] : t \in { u \in DeclaredTriples : Cardinality(SpecsDeclared(u[1])) > 1 } }
        /\ DOMAIN dependencies = { t[1] : t \in DeclaredTriples }
        /\ \A name \in DOMAIN dependencies : DOMAIN dependencies[name] = SpecsDeclared(name)

(***************************************************************************)
(* C2  A --freeze run with an inconsistent requirement exits 1 and neither *)
(* opens shared_requirements.txt for writing nor changes it; a --freeze    *)
(* run without one writes the file with exactly one line per aggregated    *)
(* requirement name and exits 0 without running the baseline diff.         *)
(***************************************************************************)
C2_FreezeRun ==
    (pc = "exit" /\ freeze) =>
        IF \E name \in DOMAIN dependencies : Cardinality(DOMAIN dependencies[name]) > 1
        THEN exitcode = 1 /\ ~opened_for_write /\ baseline = baseline_at_start
        ELSE /\ exitcode = 0 /\ opened_for_write /\ ~diff_ran /\ baseline.exists
             /\ Len(baseline.lines) = Cardinality(DOMAIN dependencies)
             /\ \A name \in DOMAIN dependencies :
                   Cardinality({ i \in DOMAIN baseline.lines :
                       \E spec \in DOMAIN dependencies[name] :
                           baseline.lines[i] = name \o spec \o "\n" }) = 1

\* A freeze that replaced a one-line baseline by two lines, one of them for a
\* requirement without specifier.
C2_Witness ==
    /\ pc = "exit" /\ freeze /\ exitcode = 0
    /\ baseline_at_start = File(<<"six>=1\n">>)
    /\ baseline = File(<<"msrest\n", "six<2,>=1\n">>)

\* A refused freeze: the baseline is the one the run started with.
C2_WitnessRefused ==
    /\ pc = "exit" /\ freeze /\ exitcode = 1 /\ inconsistent = <<"six">>
    /\ baseline = File(<<"six>=1\n">>)

(***************************************************************************)
(* C3  Freezing is idempotent: a validate run on a tree whose requirements *)
(* a --freeze run on the same tree has frozen finds no missing, no new and *)
(* no changed requirement and exits 0.                                     *)
(***************************************************************************)
C3_ValidateAfterFreezeIsClean ==
    (pc = "exit" /\ ~freeze /\ frozen_here) =>
        /\ missing_reqs = {} /\ new_reqs = {} /\ changed_reqs = EmptyDict
        /\ exitcode = 0

(***************************************************************************)
(* C4  Baseline round trip: the lines the freeze writer writes for         *)
(* consistent requirements all parse when the baseline is loaded, and      *)
(* loading them gives frozen[name] = [specifier] for every (name,          *)
(* specifier) that parse_req produced from a declared requirement.         *)
(***************************************************************************)
C4_BaselineRoundTrip ==
    (Scanned /\ \A name \in DOMAIN dependencies : Cardinality(DOMAIN dependencies[name]) = 1) =>
        LET written == FrozenFileOf(dependencies)
            loaded  == LoadBaselineOf(File(written)).frozen
        IN  /\ \A i \in DOMAIN written : ~LoadLineRaises(written[i])
            /\ \A name \in DOMAIN dependencies :
                  /\ name \in DOMAIN loaded
                  /\ loaded[name] = <<FirstSpec(dependencies[name])>>

(***************************************************************************)
(* The override entries of the baseline, read off the file                 *)
(***************************************************************************)

RECURSIVE LoadedPrefix(_)
\* The lines of the baseline before the first one on which the loader raises.
LoadedPrefix(lines) ==
    IF lines = << >> \/ LoadLineRaises(lines[1]) THEN << >>
    ELSE <<lines[1]>> \o LoadedPrefix(Tail(lines))

\* The (requirement, specifier, package) entries of the '#override package
\* requirement' lines the loader read.
OverrideEntries ==
    { <<parse_req(f[3])[1], parse_req(f[3])[2], f[2]>> :
        f \in { split2(l) : l \in { x \in Range(LoadedPrefix(baseline.lines)) :
                                      startswith(x, "#override") } } }

Excused(requirement, spec, package) == <<requirement, spec, package>> \in OverrideEntries

\* The packages declaring (requirement, spec) that no override entry for
\* this requirement, this specifier and the package excuses.
Violating(requirement, spec) ==
    { package \in Range(dependencies[requirement][spec]) : ~Excused(requirement, spec, package) }

(***************************************************************************)
(* C5  For a changed requirement and a current specifier s other than the  *)
(* frozen one, an override entry (requirement, s, P) removes exactly P     *)
(* from the violating packages of the pair: the packages reported are      *)
(* those declaring (requirement, s) without such an entry, whatever is     *)
(* recorded under another specifier or requirement, and the pair is a      *)
(* violation, setting exit status 1, iff there is at least one.            *)
(***************************************************************************)
C5_OverrideExcusesExactlyItsPackage ==
    (pc = "exit" /\ diff_ran) =>
        \A requirement \in DOMAIN changed_reqs :
            \A spec \in DOMAIN dependencies[requirement] \ Range(frozen[requirement]) :
                /\ <<requirement, spec>> \in DOMAIN reported <=> Violating(requirement, spec) # {}
                /\ Violating(requirement, spec) # {} =>
                      /\ reported[<<requirement, spec>>] = Violating(requirement, spec)
                      /\ exitcode = 1

\* Both packages declare six with a specifier other than the frozen one, the
\* override excuses azure-a for it, and azure-b alone is reported.
C5_Witness ==
    /\ pc = "exit" /\ diff_ran
    /\ <<"six", "<2,>=1", "azure-a">> \in OverrideEntries
    /\ DOMAIN dependencies = {"six"}
    /\ dependencies["six"] = ("<2,>=1" :> <<"azure-a", "azure-b">>)
    /\ reported = (<<"six", "<2,>=1">> :> {"azure-b"})
    /\ exitcode = 1

\* An override for azure-b under another specifier excuses nobody for the
\* pair azure-b is reported for.
C5_WitnessOtherSpecifier ==
    /\ pc = "exit" /\ diff_ran
    /\ OverrideEntries = {<<"six", "Six>=1", "azure-b">>}
    /\ <<"six", ">=1">> \in DOMAIN reported
    /\ reported[<<"six", ">=1">>] = {"azure-b"}

(***************************************************************************)
(* C6  A validate run exits 1 exactly when some requirement has several    *)
(* specifiers across packages or, a baseline being loaded, some current    *)
(* requirement is not in it or some current specifier other than the       *)
(* frozen one has a package that no override excuses; otherwise it exits   *)
(* 0. Requirements frozen but no longer declared do not enter.             *)
(***************************************************************************)
C6_ValidateExitStatus ==
    (pc = "exit" /\ ~freeze) =>
        LET several    == \E name \in DOMAIN dependencies :
                              Cardinality(DOMAIN dependencies[name]) > 1
            unfrozen   == DOMAIN dependencies \ DOMAIN frozen # {}
            mismatched == \E name \in DOMAIN dependencies \cap DOMAIN frozen :
                              \E spec \in DOMAIN dependencies[name] \ Range(frozen[name]) :
                                  Violating(name, spec) # {}
        IN  exitcode = IF several \/ (frozen # EmptyDict /\ (unfrozen \/ mismatched))
                       THEN 1 ELSE 0

\* A requirement is frozen and no longer declared, and the run exits 0.
C6_Witness ==
    /\ pc = "exit" /\ ~freeze /\ diff_ran
    /\ missing_reqs = {"msrest"}
    /\ exitcode = 0

\* A consistent requirement that the baseline does not hold: exit status 1.
C6_WitnessUnfrozen ==
    /\ pc = "exit" /\ ~freeze /\ inconsistent = << >>
    /\ new_reqs = {"msrest"}
    /\ exitcode = 1

(***************************************************************************)
(* C7  The baseline diff: missing are the names frozen and not current,    *)
(* new the names current and not frozen, changed the names in both whose   *)
(* frozen one-element list is not the sorted list of current specifiers;   *)
(* the three are pairwise disjoint and a name of either key set is in      *)
(* exactly one of them or is unchanged.                                    *)
(***************************************************************************)
C7_DiffClassification ==
    (pc = "exit" /\ diff_ran) =>
        LET F == DOMAIN frozen
            D == DOMAIN dependencies
            changed == DOMAIN changed_reqs
            unchanged == { name \in F \cap D : DOMAIN dependencies[name] = {frozen[name][1]} }
        IN  /\ missing_reqs = F \ D
            /\ new_reqs = D \ F
            /\ changed = { name \in F \cap D : DOMAIN dependencies[name] # {frozen[name][1]} }
            /\ \A name \in changed :
                  /\ changed_reqs[name][1] = frozen[name]
                  /\ Range(changed_reqs[name][2]) = DOMAIN dependencies[name]
                  /\ \A i, j \in DOMAIN changed_reqs[name][2] :
                        i < j => StrLess(changed_reqs[name][2][i], changed_reqs[name][2][j])
            /\ missing_reqs \cap new_reqs = {} /\ missing_reqs \cap changed = {}
            /\ new_reqs \cap changed = {}
            /\ \A name \in F \cup D :
                  Cardinality({ S \in {missing_reqs, new_reqs, changed, unchanged} :
                                  name \in S }) = 1

\* A run with a missing and a changed requirement.
C7_Witness ==
    /\ pc = "exit" /\ diff_ran
    /\ missing_reqs = {"msrest"}
    /\ DOMAIN changed_reqs = {"six"}
    /\ changed_reqs["six"] = << <<">=1">>, <<"<2,>=1", "Six>=1">> >>

(***************************************************************************)
(* C8  Every (requirement name, specifier, package) triple is in the       *)
(* Dependency Map at most once: no package name occurs twice in a list     *)
(* dependencies[name][specifier].                                          *)
(***************************************************************************)
C8_TriplesAtMostOnce ==
    \A name \in DOMAIN dependencies :
        \A spec \in DOMAIN dependencies[name] :
            \A i, j \in DOMAIN dependencies[name][spec] :
                i # j => dependencies[name][spec][i] # dependencies[name][spec][j]

(***************************************************************************)
(* C9  A requirement string that fails to parse is confined to itself:     *)
(* every requirement string of a scanned package that parses, before or    *)
(* after one that does not, is recorded for the package.                   *)
(***************************************************************************)
C9_ParseFailureConfined ==
    Scanned =>
        \A lib \in ScannedLibs :
            \A r \in { x \in Range(RequiresOf(lib)) : parse_req(x) # None } :
                /\ parse_req(r)[1] \in DOMAIN dependencies
                /\ parse_req(r)[2] \in DOMAIN dependencies[parse_req(r)[1]]
                /\ lib.name \in Range(dependencies[parse_req(r)[1]][parse_req(r)[2]])

(***************************************************************************)
(* C10  A package whose manifest or metadata fails to be read or evaluated *)
(* contributes nothing: it has no entry in packages and is in no list of   *)
(* the Dependency Map, and packages and the Dependency Map are what the    *)
(* scan of the tree without the failing packages gives.                    *)
(***************************************************************************)
RECURSIVE ScanAll(_, _)
\* The scan loop over a list of packages, from [packages, dependencies].
ScanAll(pd, libs) ==
    IF libs = << >> THEN pd
    ELSE ScanAll(IF wheeldir THEN WheelDeps(pd, libs[1]) ELSE LibDeps(pd, libs[1]), Tail(libs))

C10_FailedPackageContributesNothing ==
    Scanned =>
        /\ \A i \in DOMAIN tree :
              FailsToRead(tree[i]) =>
                  /\ tree[i].name \notin packages
                  /\ \A name \in DOMAIN dependencies :
                        \A spec \in DOMAIN dependencies[name] :
                            tree[i].name \notin Range(dependencies[name][spec])
        /\ [packages |-> packages, dependencies |-> dependencies] =
              ScanAll([packages |-> {}, dependencies |-> EmptyDict],
                      SelectSeq(tree, LAMBDA lib : ~FailsToRead(lib)))

(***************************************************************************)
(* C11  parse_setup leaves the working directory of the process as it      *)
(* found it, whether it returns or the evaluation of the manifest raises:  *)
(* at the start of every iteration of the package scan, and when the scan  *)
(* is over, the working directory is the one the run started in.           *)
(***************************************************************************)
C11_WorkingDirectoryRestored ==
    pc \in {"scan", "analyzed"} => cwd = StartDir

(***************************************************************************)
(* C12  After a successful update_configuration_setting with etag=None and *)
(* if-match sent as the star, every attribute among value, content_type    *)
(* and tags passed as None is, in the setting the call stored, what the    *)
(* service held for the key immediately before the write, also when        *)
(* another client wrote the setting between the get and the write of the   *)
(* call.                                                                   *)
(***************************************************************************)
C12_UnsetAttributesUnchanged ==
    (/\ call_pc = "done" /\ call.op = "update" /\ outcome.raised = ""
     /\ call.etag = None /\ getitem(request_headers, "if-match") = "*") =>
        /\ call.value = None => outcome.value.value = held_before_write[1].value
        /\ call.content_type = None =>
              outcome.value.content_type = held_before_write[1].content_type
        /\ call.tags = None => outcome.value.tags = held_before_write[1].tags

(***************************************************************************)
(* C13  add_configuration_setting never overwrites a setting. The request  *)
(* carries if-none-match with the star as its value, whatever              *)
(* if-none-match header the caller gave and in whatever letter case; when  *)
(* the service holds a setting for the key the call raises                 *)
(* ResourceExistsError and the setting stays as it is; the call changes    *)
(* what the service stores only when it holds none, and then stores the    *)
(* setting given.                                                          *)
(***************************************************************************)
C13_AddNeverOverwrites ==
    [][ (call_pc = "idle" /\ call_pc' = "done" /\ call'.op = "add") =>
          /\ Cardinality({ i \in DOMAIN request_headers' :
                             lower(request_headers'[i][2]) = "if-none-match" }) = 1
          /\ getitem(request_headers', "if-none-match") = "*"
          /\ store # None => outcome' = Raised("ResourceExistsError") /\ store' = store
          /\ store' # store =>
                /\ store = None
                /\ outcome'.raised = ""
                /\ store'[1].value = call'.configuration_setting.value
                /\ store'[1].content_type = call'.configuration_setting.content_type
                /\ store'[1].tags = call'.configuration_setting.tags
      ]_vars

\* The caller gave an if-none-match header that the stored setting
\* satisfies; the call raised ResourceExistsError.
C13_Witness ==
    /\ call_pc = "done" /\ call.op = "add"
    /\ call.headers = Some(<< <<"Accept", "json">>, <<"IF-NONE-MATCH", "\"e5\"">> >>)
    /\ held_before_write # None
    /\ request_headers = << <<"accept", "Accept", "json">>,
                            <<"if-none-match", "if-none-match", "*">> >>
    /\ outcome = Raised("ResourceExistsError")

\* The service held no setting; the call created it.
C13_WitnessCreated ==
    /\ call_pc = "done" /\ call.op = "add"
    /\ held_before_write = None
    /\ outcome.raised = ""
    /\ store = Some(outcome.value)

(***************************************************************************)
(* C14  prep_update_configuration_setting(key, etag, headers=H) raises     *)
(* ValueError when key is None or empty. Otherwise it returns the headers  *)
(* of H with exactly one if-match header: the etag in double quotes for a  *)
(* non-empty etag other than the star, the star for the etag being the     *)
(* star, the caller's if-match header (in any letter case) when there is   *)
(* no etag, and the star when there is neither. Every other header of H is *)
(* returned as given and nothing else is returned. The headers returned    *)
(* are a new CaseInsensitiveDict (line 59); H itself is never assigned to. *)
(***************************************************************************)
C14_IfMatchDecision ==
    call.op = "update" =>
        IF ~Truthy(call.key) THEN prepared = Raised("ValueError")
        ELSE LET H == IF call.headers = None THEN << >> ELSE call.headers[1]
                 returned == prepared.value
                 given == { i \in DOMAIN H : lower(H[i][1]) = "if-match" }
                 decided ==
                     IF call.etag # None /\ call.etag[1] # ""
                     THEN IF call.etag[1] = "*" THEN "*"
                          ELSE "\"" \o call.etag[1] \o "\""
                     ELSE IF given # {} THEN H[CHOOSE i \in given : TRUE][2]
                     ELSE "*"
             IN  /\ prepared.raised = ""
                 /\ Cardinality({ j \in DOMAIN returned :
                                    lower(returned[j][2]) = "if-match" }) = 1
                 /\ \A j \in DOMAIN returned :
                       lower(returned[j][2]) = "if-match" => returned[j][3] = decided
                 /\ \A i \in DOMAIN H \ given :
                       \E j \in DOMAIN returned : <<returned[j][2], returned[j][3]>> = H[i]
                 /\ \A j \in DOMAIN returned :
                       lower(returned[j][2]) # "if-match" =>
                           \E i \in DOMAIN H : <<returned[j][2], returned[j][3]>> = H[i]

\* An etag was given next to headers with an if-match header of their own.
C14_Witness ==
    /\ call.op = "update" /\ call.key = Some("k") /\ call.etag = Some("e1")
    /\ call.headers = Some(<< <<"IF-MATCH", "*">>, <<"Accept", "json">> >>)
    /\ prepared = Returned(<< <<"if-match", "if-match", "\"e1\"">>,
                              <<"accept", "Accept", "json">> >>)

\* No etag: the caller's if-match header was kept.
C14_WitnessCallersHeader ==
    /\ call.op = "update" /\ call.key = Some("k") /\ call.etag = Some("")
    /\ call.headers = Some(<< <<"If-Match", "\"e1\"">> >>)
    /\ prepared = Returned(<< <<"if-match", "If-Match", "\"e1\"">> >>)

\* The etag is the star.
C14_WitnessStar ==
    /\ call.op = "update" /\ call.key = Some("k") /\ call.etag = Some("*")
    /\ getitem(prepared.value, "if-match") = "*"

\* The key is empty.
C14_WitnessNoKey ==
    /\ call.op = "update" /\ call.key = Some("")
    /\ prepared = Raised("ValueError")

(***************************************************************************)
(* C15  At the end of validation non_overridden_reqs_count is the number   *)
(* of requirement names with at least one unmatched specifier that some    *)
(* declaring package is not excused for: a name counts once, however many  *)
(* such specifiers it has.                                                 *)
(***************************************************************************)
C15_CounterCountsRequirementNames ==
    (pc = "exit" /\ diff_ran) =>
        non_overridden_reqs_count =
            Cardinality({ requirement \in DOMAIN changed_reqs :
                            \E spec \in unmatched_specs(changed_reqs[requirement]) :
                                Violating(requirement, spec) # {} })

(***************************************************************************)
(* C16  A successful freeze rewrites shared_requirements.txt wholesale     *)
(* with requirement lines only: no line of the file written starts with    *)
(* '#', whatever '#override' and comment lines the file held before, and   *)
(* every line is one the loader reads as a requirement. A validate run on  *)
(* the file a freeze wrote loads an empty Override Map and override_count  *)
(* 0.                                                                      *)
(***************************************************************************)
C16_FreezeDropsOverrides ==
    /\ (pc = "exit" /\ freeze /\ opened_for_write) =>
          /\ baseline.exists
          /\ Len(baseline.lines) = Cardinality(DOMAIN dependencies)
          /\ \A i \in DOMAIN baseline.lines :
                /\ ~startswith(baseline.lines[i], "#")
                /\ ~LoadLineRaises(baseline.lines[i])
    /\ (~freeze /\ frozen_here /\ pc \in {"loaded", "exit"}) =>
          /\ overrides = EmptyDict
          /\ override_count = 0

\* The file held a comment line and an '#override' line; the freeze left
\* the requirement line only.
C16_Witness ==
    /\ pc = "exit" /\ freeze /\ opened_for_write
    /\ baseline_at_start =
           File(<<"# frozen\n", "#override azure-a six>=1,<2\n", "six>=1\n">>)
    /\ baseline = File(<<"six<2,>=1\n">>)

\* The validate run after a freeze has loaded the file.
C16_WitnessValidateAfterFreeze ==
    /\ ~freeze /\ frozen_here /\ pc = "exit"
    /\ frozen # EmptyDict
    /\ override_count = 0

(***************************************************************************)
(* C17  Loading the baseline stops at the first line that raises. What the *)
(* lines before it hold is kept: frozen has the requirement lines before   *)
(* it, the Override Map and override_count the '#override' lines before    *)
(* it; the lines after it are ignored. When at least one requirement was   *)
(* loaded the diff runs, and a current requirement that the file names     *)
(* only on ignored lines is in new_reqs and the exit status is 1.          *)
(***************************************************************************)
C17_LoadStopsAtFirstRaisingLine ==
    (~freeze /\ pc \in {"loaded", "exit"}) =>
        LET kept == LoadedPrefix(baseline.lines)
            requirement_lines == { i \in DOMAIN kept : ~startswith(kept[i], "#") }
            override_lines == { i \in DOMAIN kept : startswith(kept[i], "#override") }
        IN  /\ DOMAIN frozen = { parse_req(kept[i])[1] : i \in requirement_lines }
            /\ \A i \in requirement_lines :
                  (\A j \in requirement_lines :
                        j > i => parse_req(kept[j])[1] # parse_req(kept[i])[1])
                  => frozen[parse_req(kept[i])[1]] = <<parse_req(kept[i])[2]>>
            /\ override_count = Cardinality(override_lines)
            /\ \A requirement \in DOMAIN overrides :
                  \A spec \in DOMAIN overrides[requirement] :
                     \A package \in Range(overrides[requirement][spec]) :
                        Excused(requirement, spec, package)
            /\ \A entry \in OverrideEntries :
                  /\ entry[1] \in DOMAIN overrides
                  /\ entry[2] \in DOMAIN overrides[entry[1]]
                  /\ entry[3] \in Range(overrides[entry[1]][entry[2]])
            /\ pc = "exit" =>
                  /\ frozen # EmptyDict => diff_ran
                  /\ diff_ran =>
                        \A requirement \in DOMAIN dependencies \ DOMAIN frozen :
                            requirement \in new_reqs /\ exitcode = 1

\* A blank line stops the loader: msrest, frozen on the line after it and
\* declared by a package, is reported as new.
C17_Witness ==
    /\ pc = "exit" /\ ~freeze
    /\ baseline = File(<<"six>=1\n", "\n", "msrest\n">>)
    /\ DOMAIN frozen = {"six"}
    /\ diff_ran
    /\ "msrest" \in new_reqs
    /\ exitcode = 1

\* An '#override' line with two fields stops the loader.
C17_WitnessShortOverride ==
    /\ pc = "exit" /\ ~freeze
    /\ baseline = File(<<"six>=1\n", "#override azure-a\n", "msrest\n">>)
    /\ DOMAIN frozen = {"six"}
    /\ override_count = 0
    /\ "msrest" \in new_reqs
    /\ exitcode = 1

====
